---- MODULE Spec2Model ----
(***************************************************************************)
(* Guided backpropagation (pytorchxai.xai.gradient_guided_backprop).       *)
(*                                                                         *)
(* The model follows GuidedBackprop: the constructor puts the network in   *)
(* evaluation mode and registers the observers (update_relus, hook_layers);*)
(* generate runs one forward pass over model.features and the classifier,  *)
(* builds the one-hot target, runs the backward pass during which the      *)
(* observers fire, reads self.gradients and builds the four output maps.   *)
(*                                                                         *)
(* Tensors are vectors of Pixels integers (one channel, batch of one).     *)
(* A feature layer is either a ReLU or a Conv layer with one scalar weight *)
(* (a 1x1 convolution); the classifier is Dropout and a fixed linear map.  *)
(* The absent value None is the empty tuple; Some(x) is <<x>>.             *)
(*                                                                         *)
(* Spec: calls made one at a time, directly or through                     *)
(* GradientVisualization.generate (pytorchxai.xai.gradient_visualizations).*)
(* SpecObserver: a ReLU's backward observer fired on its own.              *)
(* SpecInterleaved: two calls on one Controller that overlap in time.      *)
(***************************************************************************)
EXTENDS Integers, Sequences, FiniteSets, TLC

\* ------------------------------------------------------------------ bounds
MaxLayers == 2      \* longest feature sequence explored
Pixels == 2         \* elements of one tensor
NumClasses == 2     \* model_output.size()[-1]
MaxStale == 1       \* a new call starts only with at most this many records left

\* ------------------------------------------------------------ value spaces
None == << >>
Some(x) == << x >>

Idx == 1..Pixels
Classes == 0..(NumClasses - 1)
\* Input images: all positive, all negative, and one positive element followed
\* by negative ones.
Images == {[i \in Idx |-> 1], [i \in Idx |-> -1], [i \in Idx |-> IF i = 1 THEN 1 ELSE -1]}
\* target_class: the indices at the edges of the accepted range -n .. n-1,
\* inside it and just outside it.
Targets == {0 - NumClasses - 1, 0 - NumClasses, -1, 0, NumClasses - 1, NumClasses}
Kinds == {"ReLU", "Conv"}
WeightValues == {-1, 1}
\* Call frames of generate.  Calls on one Controller are made one at a time
\* (Serial), on frame 1; frame 2 is there for a second, overlapping call.
Calls == {1, 2}

Networks == UNION {[1..n -> Kinds] : n \in 0..MaxLayers}

RECURSIVE SumTo(_, _)
SumTo(f, n) == IF n = 0 THEN 0 ELSE f[n] + SumTo(f, n - 1)

Abs(x) == IF x < 0 THEN 0 - x ELSE x
Max(a, b) == IF a >= b THEN a ELSE b

RECURSIVE GCD(_, _)
GCD(a, b) == IF b = 0 THEN a ELSE GCD(b, a % b)

Ones == [i \in Idx |-> 1]
Zeros == [i \in Idx |-> 0]

\* ------------------------------------------------- the network's arithmetic
\* torch.nn.ReLU forward, and its derivative as autograd computes it from the
\* saved result (threshold_backward).
ReLUForward(x) == [i \in Idx |-> Max(x[i], 0)]
ReLUGradInput(out, grad_out) == [i \in Idx |-> IF out[i] > 0 THEN grad_out[i] ELSE 0]

\* A 1x1 convolution with scalar weight w.
ConvForward(w, x) == [i \in Idx |-> w * x[i]]
ConvGradInput(w, grad_out) == [i \in Idx |-> w * grad_out[i]]

LayerForward(kind, w, x) == IF kind = "ReLU" THEN ReLUForward(x) ELSE ConvForward(w, x)

\* The classifier: Dropout (the identity unless the module is in training
\* mode, where mask m zeroes elements) followed by a linear map whose row c
\* has +1 at element c + 1 and -1 elsewhere.
ClassifierWeight(c, i) == IF i = c + 1 THEN 1 ELSE -1
ClassifierForward(x, m) ==
    [c \in Classes |-> SumTo([i \in Idx |-> ClassifierWeight(c, i) * m[i] * x[i]], Pixels)]
ClassifierGradInput(seed, m) ==
    [i \in Idx |-> m[i] * SumTo([k \in 1..NumClasses |->
                                    seed[k - 1] * ClassifierWeight(k - 1, i)], NumClasses)]
DropoutMasks(train) == IF train THEN [Idx -> {0, 1}] ELSE {Ones}

\* Whether the input / the output of feature layer p takes part in the
\* backward pass: the image requires grad, or a layer with parameters lies
\* at or below it.
InputRequiresGrad(ls, rg, p) == rg \/ \E j \in 1..(p - 1) : ls[j] = "Conv"
OutputRequiresGrad(ls, rg, p) == rg \/ \E j \in 1..p : ls[j] = "Conv"

\* ------------------------------------------------------------ the observers
\* hook_function: self.gradients = grad_in[0]  (grad_in0 is Some(t) or None)
hook_function(grad_in0) == grad_in0

\* Mutant: the forward observer inserts the record at the front of the list.
relu_forward_hook_function_front(rec, ten_out) == << ten_out >> \o rec

\* relu_forward_hook_function: self.forward_relu_outputs.append(ten_out)
relu_forward_hook_function(rec, ten_out) == Append(rec, ten_out)

\* corresponding_forward_output[corresponding_forward_output > 0] = 1
PositiveToOne(fo) == [i \in Idx |-> IF fo[i] > 0 THEN 1 ELSE fo[i]]

\* torch.clamp(grad_in[0], min=0.0)
ClampMin0(g) == [i \in Idx |-> Max(g[i], 0)]

\* Mutant: the observer multiplies the mask by grad_in[0] without clamping it.
relu_backward_hook_function_noclamp(rec, grad_in0) ==
    IF Len(rec) = 0
    THEN [raised |-> TRUE, rec |-> rec, ret |-> None]
    ELSE [raised |-> FALSE,
          rec |-> SubSeq(rec, 1, Len(rec) - 1),
          ret |-> Some([i \in Idx |-> PositiveToOne(rec[Len(rec)])[i] * grad_in0[i]])]

\* Mutant: on an empty Recorder the observer returns a zero gradient.
relu_backward_hook_function_silent(rec, grad_in0) ==
    IF Len(rec) = 0
    THEN [raised |-> FALSE, rec |-> rec, ret |-> Some(Zeros)]
    ELSE [raised |-> FALSE,
          rec |-> SubSeq(rec, 1, Len(rec) - 1),
          ret |-> Some([i \in Idx |->
                          PositiveToOne(rec[Len(rec)])[i] * ClampMin0(grad_in0)[i]])]

\* Mutant: the backward observer reads the oldest record of the list.
ReadLast_oldest(rec) == rec[1]

\* self.forward_relu_outputs[-1] and del self.forward_relu_outputs[-1].
ReadLast(rec) == rec[Len(rec)]
DeleteLast(rec) == SubSeq(rec, 1, Len(rec) - 1)

\* relu_backward_hook_function.  rec is self.forward_relu_outputs, grad_in0 the
\* tensor grad_in[0].  raised: the read of [-1] on an empty list raises
\* IndexError before anything is changed.
relu_backward_hook_function(rec, grad_in0) ==
    IF Len(rec) = 0
    THEN [raised |-> TRUE, rec |-> rec, ret |-> None]
    ELSE LET corresponding_forward_output == PositiveToOne(ReadLast(rec))
             clamped == ClampMin0(grad_in0)
             modified_grad_out ==
                 [i \in Idx |-> corresponding_forward_output[i] * clamped[i]]
         IN [raised |-> FALSE,
             rec |-> DeleteLast(rec),
             ret |-> Some(modified_grad_out)]

\* The forward observers of one module fire in registration order.
RECURSIVE FireForwardHooks(_, _, _)
FireForwardHooks(hooks, rec, ten_out) ==
    IF hooks = << >> THEN rec
    ELSE FireForwardHooks(Tail(hooks),
                          relu_forward_hook_function(rec, ten_out), ten_out)

\* The backward observers of one module fire in registration order; an
\* observer that returns a value replaces grad_in for the ones after it and
\* for the rest of the backward pass.
\* st = [grad_in0, rec, gradients, fired, raised, pushed_by, popped, relu_fired,
\* captured_after]: pushed_by follows rec, popped is who had appended the record
\* an observer deleted, relu_fired counts the ReLU backward observers that have
\* run in this backward pass, and captured_after is that count when
\* hook_function ran.
RECURSIVE FireBackwardHooks(_, _)
FireBackwardHooks(hooks, st) ==
    IF hooks = << >> \/ st.raised THEN st
    ELSE IF Head(hooks) = "relu_backward_hook_function"
    THEN LET r == relu_backward_hook_function(st.rec, st.grad_in0[1])
         IN FireBackwardHooks(Tail(hooks),
                [st EXCEPT !.raised = r.raised,
                           !.rec = r.rec,
                           !.grad_in0 = IF r.raised THEN @ ELSE r.ret,
                           !.pushed_by = IF Len(r.rec) < Len(st.rec)
                                         THEN DeleteLast(@) ELSE @,
                           !.popped = IF Len(r.rec) < Len(st.rec)
                                      THEN Some(ReadLast(st.pushed_by)) ELSE @,
                           !.relu_fired = IF r.raised THEN @ ELSE @ + 1])
    ELSE FireBackwardHooks(Tail(hooks),
                [st EXCEPT !.gradients = hook_function(st.grad_in0),
                           !.fired = TRUE,
                           !.captured_after = Some(st.relu_fired)])

\* Mutant: hook_function is registered on the last feature layer.
hook_layers_last(hb) == [hb EXCEPT ![Len(hb)] = Append(@, "hook_function")]

\* update_relus: every ReLU of model.features gets the backward and the
\* forward observer.  hook_layers: the first feature layer gets hook_function.
update_relus_forward(ls, hf) ==
    [p \in 1..Len(ls) |->
        IF ls[p] = "ReLU" THEN Append(hf[p], "relu_forward_hook_function") ELSE hf[p]]
update_relus_backward(ls, hb) ==
    [p \in 1..Len(ls) |->
        IF ls[p] = "ReLU" THEN Append(hb[p], "relu_backward_hook_function") ELSE hb[p]]
hook_layers(hb) == [hb EXCEPT ![1] = Append(@, "hook_function")]

\* Mutant: the constructor does not call self.model.eval().
EvalMode_skipped(train) == train

\* self.model.eval(): the training flag after the constructor.
EvalMode(train) == FALSE

\* Mutant: the index check is off by one at the upper end.
IndexAccepted_offbyone(t, n) == t >= 0 - n /\ t <= n

\* one_hot_output[0][target_class] = 1 : the index is accepted iff
\* -n <= target_class < n, a negative index counting from the end.
IndexAccepted(t, n) == t >= 0 - n /\ t < n
IndexResolved(t, n) == IF t < 0 THEN t + n ELSE t
OneHot(t) == [c \in Classes |-> IF c = IndexResolved(t, NumClasses) THEN 1 ELSE 0]
ZeroVector == [c \in Classes |-> 0]

\* ------------------------------------------------------------ the Normalizer
\* pytorchxai.xai.utils (normalize_gradient, convert_to_grayscale,
\* get_positive_negative_saliency).  A normalized value is the reduced
\* fraction <<numerator, denominator>>.
MinOf(a) == CHOOSE m \in {a[i] : i \in Idx} : \A i \in Idx : m <= a[i]
MaxOf(a) == CHOOSE m \in {a[i] : i \in Idx} : \A i \in Idx : m >= a[i]
Fraction(n, d) == << n \div GCD(n, d), d \div GCD(n, d) >>

\* Mutant: the array is divided by its maximum without subtracting the minimum.
normalize_gradient_nomin(a) ==
    IF MaxOf(a) <= 0
    THEN [i \in Idx |-> << 0, 1 >>]
    ELSE [i \in Idx |-> Fraction(a[i], MaxOf(a))]

normalize_gradient(a) ==
    IF MinOf(a) = MaxOf(a)
    THEN [i \in Idx |-> << 0, 1 >>]
    ELSE [i \in Idx |-> Fraction(a[i] - MinOf(a), MaxOf(a) - MinOf(a))]

convert_to_grayscale(g) == [i \in Idx |-> Abs(g[i])]

get_positive_negative_saliency(g) ==
    [pos_sal |-> [i \in Idx |-> Max(g[i], 0)],
     neg_sal |-> [i \in Idx |-> Max(0 - g[i], 0)]]

\* generate, after generate_gradients returned guided_grads.
OutputBundle(guided_grads) ==
    [color_guided_grads |-> normalize_gradient(guided_grads),
     grayscale_guided_grads |-> normalize_gradient(convert_to_grayscale(guided_grads)),
     positive_saliency_maps |->
         normalize_gradient(get_positive_negative_saliency(guided_grads).pos_sal),
     negative_saliency_maps |->
         normalize_gradient(get_positive_negative_saliency(guided_grads).neg_sal)]

\* ------------------------------------------------------------------- state
VARIABLES
    layers,                 \* model.features: the kind of each layer, in order
    weights,                \* the scalar weight of each feature layer
    training,               \* model.training
    param_grad,             \* the parameters' .grad: "None", "zero" or "accumulated"
    forward_hooks,          \* per feature layer: its forward observers, in order
    backward_hooks,         \* per feature layer: its backward observers, in order
    ctrl,                   \* "Uninitialized", "Ready" or "Failed" (constructor raised)
    gradients,              \* self.gradients: None or Some(tensor)
    forward_relu_outputs,   \* self.forward_relu_outputs
    frame,                  \* per call frame of generate: its locals and position
    obs,                    \* per call frame: what was observed during the call
    first,                  \* the first call on the Controller, while it is compared
    direct,                 \* the last firing of a ReLU's backward observer outside generate
    aggregator,             \* GradientVisualization.generate: its position, results, exception
    pushed_by,              \* for each record of forward_relu_outputs: the call and the
                            \* layer whose forward observer appended it
    captured_by,            \* the call whose backward pass set self.gradients
    previous                \* how the last generate call that ended did: its exception

vars == << layers, weights, training, param_grad, forward_hooks, backward_hooks,
           ctrl, gradients, forward_relu_outputs, frame, obs, first, direct,
           aggregator, pushed_by, captured_by, previous >>

network == << layers, weights >>
hooks == << forward_hooks, backward_hooks >>

IdleFrame ==
    [pc |-> "idle", pos |-> 0,
     input_image |-> None, requires_grad |-> FALSE, target_class |-> 0,
     act |-> None, saved |-> << >>, drop_mask |-> None, model_output |-> None,
     one_hot_output |-> None, grad |-> None,
     raised |-> "", result |-> None]

IdleObs ==
    [fired |-> FALSE, forward_ran |-> FALSE, forward_fired |-> 0,
     backward_ran |-> FALSE, relu |-> None,
     relu_fired |-> 0, captured_after |-> None,
     rec_before |-> << >>, gradients_before |-> None]

\* Who appended a record that a call already returned left in the Recorder.
EarlierCall == [call |-> 0, pos |-> 0]

\* GradientVisualization.generate before it is called: results = {} is yet to be made.
IdleAggregator == [pc |-> "idle", raised |-> "", results |-> << >>]

NumReLUs(ls) == Cardinality({p \in 1..Len(ls) : ls[p] = "ReLU"})

Init ==
    /\ layers \in Networks
    /\ weights \in [1..Len(layers) -> WeightValues]
    /\ \A p \in 1..Len(layers) : layers[p] = "ReLU" => weights[p] = 1
    /\ training = TRUE
    /\ param_grad = "None"
    /\ forward_hooks = [p \in 1..Len(layers) |-> << >>]
    /\ backward_hooks = [p \in 1..Len(layers) |-> << >>]
    /\ ctrl = "Uninitialized"
    /\ gradients = None
    /\ forward_relu_outputs = << >>
    /\ frame = [c \in Calls |-> IdleFrame]
    /\ obs = [c \in Calls |-> IdleObs]
    /\ first = [calls |-> 0, call |-> None]
    /\ direct = None
    /\ aggregator = IdleAggregator
    /\ pushed_by = << >>
    /\ captured_by = EarlierCall.call
    /\ previous = None

\* GuidedBackprop.__init__: eval(), update_relus(), hook_layers().
\* list(...)[0] raises IndexError when model.features is empty.
Construct ==
    /\ ctrl = "Uninitialized"
    /\ training' = EvalMode(training)
    /\ forward_hooks' = update_relus_forward(layers, forward_hooks)
    /\ IF Len(layers) = 0
       THEN /\ backward_hooks' = update_relus_backward(layers, backward_hooks)
            /\ ctrl' = "Failed"
       ELSE /\ backward_hooks' = hook_layers(update_relus_backward(layers, backward_hooks))
            /\ ctrl' = "Ready"
    /\ UNCHANGED << previous, pushed_by, aggregator, direct, network, param_grad, gradients, captured_by, forward_relu_outputs, frame, obs, first >>

\* The call of generate(input_image, target_class): a new frame.
Generate(c, img, rg, t) ==
    /\ ctrl = "Ready"
    /\ frame[c].pc = "idle"
    /\ Len(forward_relu_outputs) <= MaxStale
    /\ frame' = [frame EXCEPT ![c] =
                    [IdleFrame EXCEPT !.pc = "forward", !.pos = 1,
                                      !.input_image = Some(img),
                                      !.requires_grad = rg,
                                      !.target_class = t,
                                      !.act = Some(img)]]
    /\ obs' = [obs EXCEPT ![c] =
                    [IdleObs EXCEPT !.rec_before = forward_relu_outputs,
                                    !.gradients_before = gradients]]
    /\ first' = IF first.calls = 0 THEN [calls |-> 1, call |-> None]
                ELSE IF /\ first.calls = 1
                        /\ first.call # None
                        /\ first.call[1].input_image = Some(img)
                        /\ first.call[1].requires_grad = rg
                        /\ first.call[1].target_class = t
                     THEN [calls |-> 2, call |-> first.call]
                     ELSE [calls |-> 2, call |-> None]
    /\ UNCHANGED << previous, pushed_by, direct, network, training, param_grad, hooks, ctrl, gradients, captured_by,
                    forward_relu_outputs >>

\* Line 67, one feature layer: the module runs and its forward observers fire.
ForwardLayer(c) ==
    /\ frame[c].pc = "forward"
    /\ frame[c].pos <= Len(layers)
    /\ LET p == frame[c].pos
           ten_out == LayerForward(layers[p], weights[p], frame[c].act[1])
       IN /\ forward_relu_outputs' =
                 FireForwardHooks(forward_hooks[p], forward_relu_outputs, ten_out)
          /\ pushed_by' =
                 FireForwardHooks(forward_hooks[p], pushed_by, [call |-> c, pos |-> p])
          /\ frame' = [frame EXCEPT ![c].act = Some(ten_out),
                                    ![c].saved = Append(@, ten_out),
                                    ![c].pos = p + 1]
          /\ obs' = [obs EXCEPT ![c].forward_ran = TRUE,
                                ![c].forward_fired = @ + Len(forward_hooks[p])]
    /\ UNCHANGED << previous, aggregator, direct, network, training, param_grad, hooks, ctrl, gradients, captured_by, first >>

\* Line 67, the classifier: model_output.
ForwardClassifier(c) ==
    /\ frame[c].pc = "forward"
    /\ frame[c].pos = Len(layers) + 1
    /\ \E m \in DropoutMasks(training) :
          frame' = [frame EXCEPT ![c].drop_mask = Some(m),
                                 ![c].model_output =
                                     Some(ClassifierForward(frame[c].act[1], m)),
                                 ![c].pc = "target"]
    /\ obs' = [obs EXCEPT ![c].forward_ran = TRUE]
    /\ UNCHANGED << previous, pushed_by, aggregator, direct, network, training, param_grad, hooks, ctrl, gradients, captured_by,
                    forward_relu_outputs, first >>

\* The frame when generate ends: its locals are gone; the arguments, the
\* one-hot vector, the exception raised and the value returned stay visible
\* until the caller moves on.
EndFrame(f, exc, res) ==
    [IdleFrame EXCEPT !.pc = "done",
                      !.input_image = f.input_image,
                      !.requires_grad = f.requires_grad,
                      !.target_class = f.target_class,
                      !.one_hot_output = f.one_hot_output,
                      !.raised = exc,
                      !.result = res]

FirstAfter(f, exc, res) ==
    IF first.calls = 1 /\ first.call = None
    THEN [calls |-> 1,
          call |-> Some([input_image |-> f.input_image,
                         requires_grad |-> f.requires_grad,
                         target_class |-> f.target_class,
                         raised |-> exc,
                         result |-> res])]
    ELSE first

\* Mutant: generate_gradients does not call self.model.zero_grad().
ZeroGrad_skipped(pg) == pg

\* self.model.zero_grad(): a .grad that exists is zeroed.
ZeroGrad(pg) == IF pg = "None" THEN "None" ELSE "zero"

\* Lines 69-72: zero_grad, the zero vector, one_hot_output[0][target_class] = 1.
BuildTarget(c) ==
    /\ frame[c].pc = "target"
    /\ param_grad' = ZeroGrad(param_grad)
    /\ LET t == frame[c].target_class
       IN IF IndexAccepted(t, NumClasses)
          THEN /\ frame' = [frame EXCEPT ![c].one_hot_output = Some(OneHot(t)),
                                         ![c].grad = Some(OneHot(t)),
                                         ![c].pc = "backward",
                                         ![c].pos = Len(layers) + 1]
               /\ first' = first
          ELSE LET f == [frame[c] EXCEPT !.one_hot_output = Some(ZeroVector)]
               IN /\ frame' = [frame EXCEPT ![c] =
                                  EndFrame(f, "IndexError(one_hot_output)", None)]
                  /\ first' = FirstAfter(f, "IndexError(one_hot_output)", None)
    /\ UNCHANGED << previous, pushed_by, aggregator, direct, network, training, hooks, ctrl, gradients, captured_by,
                    forward_relu_outputs, obs >>

\* Line 74, the classifier: the gradient with respect to the features' output
\* exists iff that output requires grad.
BackwardClassifier(c) ==
    /\ frame[c].pc = "backward"
    /\ frame[c].pos = Len(layers) + 1
    /\ param_grad' = "accumulated"
    /\ frame' = [frame EXCEPT
                    ![c].grad =
                        IF OutputRequiresGrad(layers, frame[c].requires_grad, Len(layers))
                        THEN Some(ClassifierGradInput(frame[c].grad[1],
                                                      frame[c].drop_mask[1]))
                        ELSE None,
                    ![c].pos = Len(layers)]
    /\ obs' = [obs EXCEPT ![c].backward_ran = TRUE]
    /\ UNCHANGED << previous, pushed_by, aggregator, direct, network, training, hooks, ctrl, gradients, captured_by,
                    forward_relu_outputs, first >>

\* Line 74, one feature layer whose output requires grad: autograd computes
\* grad_in, then the layer's backward observers fire.  An exception raised by
\* an observer ends generate.
BackwardLayer(c) ==
    /\ frame[c].pc = "backward"
    /\ frame[c].pos >= 1
    /\ frame[c].pos <= Len(layers)
    /\ OutputRequiresGrad(layers, frame[c].requires_grad, frame[c].pos)
    /\ LET p == frame[c].pos
           grad_out == frame[c].grad[1]
           grad_in0 ==
               IF layers[p] = "ReLU"
               THEN Some(ReLUGradInput(frame[c].saved[p], grad_out))
               ELSE IF InputRequiresGrad(layers, frame[c].requires_grad, p)
                    THEN Some(ConvGradInput(weights[p], grad_out))
                    ELSE None
           st == FireBackwardHooks(backward_hooks[p],
                     [grad_in0 |-> grad_in0,
                      rec |-> forward_relu_outputs,
                      gradients |-> gradients,
                      fired |-> obs[c].fired,
                      raised |-> FALSE,
                      pushed_by |-> pushed_by,
                      popped |-> None,
                      relu_fired |-> obs[c].relu_fired,
                      captured_after |-> obs[c].captured_after])
       IN /\ param_grad' = IF layers[p] = "Conv" THEN "accumulated" ELSE param_grad
          /\ forward_relu_outputs' = st.rec
          /\ pushed_by' = st.pushed_by
          /\ gradients' = st.gradients
          /\ captured_by' = IF st.fired /\ ~obs[c].fired THEN c ELSE captured_by
          /\ obs' = [obs EXCEPT
                        ![c].fired = st.fired,
                        ![c].relu_fired = st.relu_fired,
                        ![c].captured_after = st.captured_after,
                        ![c].relu =
                            IF layers[p] = "ReLU"
                            THEN Some([pos |-> p,
                                       forward_output |-> frame[c].saved[p],
                                       incoming |-> grad_out,
                                       raised |-> st.raised,
                                       popped |-> st.popped,
                                       propagated |-> st.grad_in0])
                            ELSE @]
          /\ IF st.raised
             THEN /\ frame' = [frame EXCEPT ![c] =
                        EndFrame(frame[c], "IndexError(forward_relu_outputs)", None)]
                  /\ first' = FirstAfter(frame[c], "IndexError(forward_relu_outputs)", None)
             ELSE /\ frame' = [frame EXCEPT ![c].grad = st.grad_in0,
                                            ![c].pos = p - 1]
                  /\ first' = first
    /\ UNCHANGED << previous, aggregator, direct, network, training, hooks, ctrl >>

\* Line 74 returns: the pass went through every layer, or the next layer's
\* output does not require grad.
BackwardEnd(c) ==
    /\ frame[c].pc = "backward"
    /\ frame[c].pos <= Len(layers)
    /\ \/ frame[c].pos = 0
       \/ ~OutputRequiresGrad(layers, frame[c].requires_grad, frame[c].pos)
    /\ frame' = [frame EXCEPT ![c].pc = "read"]
    /\ UNCHANGED << previous, pushed_by, aggregator, direct, network, training, param_grad, hooks, ctrl, gradients, captured_by,
                    forward_relu_outputs, obs, first >>

\* Lines 77-95: self.gradients.data raises AttributeError on None; otherwise
\* generate normalizes the gradient into the four maps and returns them.
ReadGradients(c) ==
    /\ frame[c].pc = "read"
    /\ IF gradients = None
       THEN /\ frame' = [frame EXCEPT ![c] =
                            EndFrame(frame[c], "AttributeError(gradients)", None)]
            /\ first' = FirstAfter(frame[c], "AttributeError(gradients)", None)
       ELSE /\ frame' = [frame EXCEPT ![c] =
                            EndFrame(frame[c], "", Some(OutputBundle(gradients[1])))]
            /\ first' = FirstAfter(frame[c], "", Some(OutputBundle(gradients[1])))
    /\ UNCHANGED << previous, pushed_by, aggregator, direct, network, training, param_grad, hooks, ctrl, gradients, captured_by,
                    forward_relu_outputs, obs >>

\* results.update(mapping): the mapping's entries replace and extend results.
ResultsUpdate(results, mapping) ==
    [k \in DOMAIN mapping \cup DOMAIN results |->
        IF k \in DOMAIN mapping THEN mapping[k] ELSE results[k]]

\* The caller has the result (or the exception) and the frame is gone.  A call
\* made by GradientVisualization.generate hands its mapping to results.update;
\* the visualizations after the first of the list are not part of this model.
Return(c) ==
    /\ frame[c].pc = "done"
    /\ frame' = [frame EXCEPT ![c] = IdleFrame]
    /\ obs' = [obs EXCEPT ![c] = IdleObs]
    /\ first' = IF first.calls = 2 THEN [calls |-> 2, call |-> None] ELSE first
    /\ aggregator' =
           IF aggregator.pc = "calling"
           THEN [pc |-> "done",
                 raised |-> frame[c].raised,
                 results |-> IF frame[c].result = None
                             THEN aggregator.results
                             ELSE ResultsUpdate(aggregator.results, frame[c].result[1])]
           ELSE aggregator
    /\ pushed_by' = [k \in 1..Len(pushed_by) |->
                        IF pushed_by[k].call = c THEN EarlierCall ELSE pushed_by[k]]
    /\ captured_by' = IF captured_by = c THEN EarlierCall.call ELSE captured_by
    /\ previous' = Some(frame[c].raised)
    /\ UNCHANGED << direct, network, training, param_grad, hooks, ctrl, gradients,
                    forward_relu_outputs >>

\* One call at a time (section 5): generate is called on frame 1 while no
\* call is in progress.
Serial == \A c \in Calls : frame[c].pc = "idle"

Call ==
    /\ Serial
    /\ aggregator.pc = "idle"
    /\ \E img \in Images, rg \in BOOLEAN, t \in Targets : Generate(1, img, rg, t)
    /\ UNCHANGED aggregator

\* def generate(self, input_image, target_class): the parameters after self.
GenerateParameters == << "input_image", "target_class" >>

\* v.generate(orig_image, input_image, target): the positional arguments that
\* GradientVisualization.generate passes to each visualization.
AggregatorArguments(orig_image, input_image, target) ==
    << orig_image, input_image, target >>

\* GradientVisualization.generate, up to its call of generate on the first
\* visualization of the list, the GuidedBackprop Controller.  Python binds the
\* positional arguments to the parameters before the body runs and raises
\* TypeError when their numbers differ.
AggregatorGenerate ==
    /\ ctrl = "Ready"
    /\ Serial
    /\ aggregator.pc = "idle"
    /\ \E orig \in Images, img \in Images, rg \in BOOLEAN, t \in Targets :
          LET args == AggregatorArguments(orig, img, t)
          IN IF Len(args) = Len(GenerateParameters)
             THEN /\ Generate(1, args[1], rg, args[2])
                  /\ aggregator' = [pc |-> "calling", raised |-> "", results |-> << >>]
             ELSE /\ aggregator' = [pc |-> "done",
                                    raised |-> "TypeError(generate)",
                                    results |-> << >>]
                  /\ UNCHANGED << previous, pushed_by, direct, network, training, param_grad, hooks, ctrl,
                                  gradients, captured_by, forward_relu_outputs, frame, obs, first >>

\* The caller of GradientVisualization.generate has its results or its exception.
AggregatorReturn ==
    /\ aggregator.pc = "done"
    /\ aggregator' = IdleAggregator
    /\ UNCHANGED << previous, pushed_by, direct, network, training, param_grad, hooks, ctrl,
                    gradients, captured_by, forward_relu_outputs, frame, obs, first >>

Step ==
    \E c \in Calls :
        \/ ForwardLayer(c)
        \/ ForwardClassifier(c)
        \/ BuildTarget(c)
        \/ BackwardClassifier(c)
        \/ BackwardLayer(c)
        \/ BackwardEnd(c)
        \/ ReadGradients(c)
        \/ Return(c)

Next == Construct \/ Call \/ Step \/ AggregatorGenerate \/ AggregatorReturn

Spec == Init /\ [][Next]_vars

\* ------------------------------- generate on a freshly constructed Controller
\* What generate(input_image, target_class) computes when the Controller has
\* just been constructed, for an input that requires grad and an accepted
\* target_class: the Recorder holds exactly the outputs of this forward pass,
\* the model is in eval mode (Dropout is the identity), every layer's backward
\* observers run, and hook_function captures the gradient that leaves layer 1.
RECURSIVE FreshForward(_, _, _)
FreshForward(ls, ws, x) ==
    IF ls = << >> THEN << >>
    ELSE LET ten_out == LayerForward(Head(ls), Head(ws), x)
         IN << ten_out >> \o FreshForward(Tail(ls), Tail(ws), ten_out)

RECURSIVE FreshBackward(_, _, _, _, _)
FreshBackward(ls, ws, outs, p, grad_out) ==
    IF p = 0 THEN hook_function(Some(grad_out))[1]
    ELSE FreshBackward(ls, ws, outs, p - 1,
             IF ls[p] = "ReLU"
             THEN relu_backward_hook_function(
                      SubSeq(outs, 1, NumReLUs(SubSeq(ls, 1, p))),
                      ReLUGradInput(outs[NumReLUs(SubSeq(ls, 1, p))], grad_out)).ret[1]
             ELSE ConvGradInput(ws[p], grad_out))

FreshGenerate(ls, ws, input_image, target_class) ==
    LET saved == FreshForward(ls, ws, input_image)
        relus == SelectSeq([p \in 1..Len(ls) |-> << ls[p], saved[p] >>],
                           LAMBDA e : e[1] = "ReLU")
        rec == [k \in 1..Len(relus) |-> relus[k][2]]
        seed == ClassifierGradInput(OneHot(target_class), Ones)
    IN OutputBundle(FreshBackward(ls, ws, rec, Len(ls), seed))

\* ------------------------------------------------- calls that overlap in time
\* generate called from a second thread while a call is in progress: nothing in
\* generate or in the observers excludes it (no lock, and self.gradients and
\* self.forward_relu_outputs belong to the Controller, not to the call).  Two
\* calls are made in all, each with an input that requires grad and a valid
\* target_class.
GenerateOverlapping ==
    /\ aggregator.pc = "idle"
    /\ first.calls < Cardinality(Calls)
    /\ \E c \in Calls, img \in Images, t \in Classes : Generate(c, img, TRUE, t)
    /\ UNCHANGED aggregator

NextInterleaved == Construct \/ GenerateOverlapping \/ Step

\* Networks of ReLU units only: the observers of every layer touch the Recorder.
InitInterleaved == Init /\ \A p \in 1..Len(layers) : layers[p] = "ReLU"

SpecInterleaved == InitInterleaved /\ [][NextInterleaved]_vars
\* ---------------------------------------------- an observer fired directly
\* The backward observer of a ReLU is a callback of the shared network: the
\* framework calls it whenever a backward pass runs through that ReLU, also
\* one that no generate call of this Controller started.  SpecObserver starts
\* from a constructed Controller whose Recorder holds what calls may have left
\* there, and fires the observer with any incoming gradient.
RecordValues == {ReLUForward(ConvForward(w, x)) : w \in WeightValues, x \in Images}
GradValues == [Idx -> {-1, 0, 1}]
RecorderContents == UNION {[1..n -> RecordValues] : n \in 0..MaxStale}

InitObserver ==
    /\ layers \in {n \in Networks : \E p \in 1..Len(n) : n[p] = "ReLU"}
    /\ weights = [p \in 1..Len(layers) |-> 1]
    /\ training = EvalMode(TRUE)
    /\ param_grad = "None"
    /\ forward_hooks =
           update_relus_forward(layers, [p \in 1..Len(layers) |-> << >>])
    /\ backward_hooks =
           hook_layers(update_relus_backward(layers, [p \in 1..Len(layers) |-> << >>]))
    /\ ctrl = "Ready"
    /\ gradients = None
    /\ forward_relu_outputs \in RecorderContents
    /\ frame = [c \in Calls |-> IdleFrame]
    /\ obs = [c \in Calls |-> IdleObs]
    /\ first = [calls |-> 0, call |-> None]
    /\ direct = None
    /\ aggregator = IdleAggregator
    /\ pushed_by = [k \in 1..Len(forward_relu_outputs) |-> EarlierCall]
    /\ captured_by = EarlierCall.call
    /\ previous = None

ObserverFires(g) ==
    /\ ctrl = "Ready"
    /\ LET r == relu_backward_hook_function(forward_relu_outputs, g)
       IN /\ forward_relu_outputs' = r.rec
          /\ pushed_by' = IF Len(r.rec) < Len(forward_relu_outputs)
                          THEN DeleteLast(pushed_by) ELSE pushed_by
          /\ direct' = Some([rec_before |-> forward_relu_outputs,
                             grad_in0 |-> g,
                             raised |-> r.raised,
                             ret |-> r.ret])
    /\ UNCHANGED << previous, aggregator, network, training, param_grad, hooks, ctrl, gradients, captured_by,
                    frame, obs, first >>

NextObserver == \E g \in GradValues : ObserverFires(g)

SpecObserver == InitObserver /\ [][NextObserver]_vars
\* ------------------------------------------------------------------ claims
Done(c) == frame[c].pc = "done"
Returned(c) == Done(c) /\ frame[c].result # None
BundleKeys == {"color_guided_grads", "grayscale_guided_grads",
               "positive_saliency_maps", "negative_saliency_maps"}
InUnitInterval(q) == q[2] > 0 /\ q[1] >= 0 /\ q[1] <= q[2]
IsZero(q) == q[1] = 0
IsOne(q) == q[1] = q[2]

\* C1: after any generate call that ran to completion and returned its bundle,
\* the Activation Recorder (forward_relu_outputs) is empty.
C1_RecorderEmptyAfterCompleteCall ==
    \A c \in Calls : Returned(c) => forward_relu_outputs = << >>

\* C2: at every rectifying unit the gradient the backward observer propagates
\* onward replaces the original and equals, element by element,
\* (forward_output > 0 ? 1 : 0) * max(incoming_backward_gradient, 0), where
\* forward_output is that unit's own output in this forward pass; so it is zero
\* where the output was <= 0 and zero where the incoming gradient is negative.
C2_GuidedBackpropRule ==
    \A c \in Calls :
        obs[c].relu # None =>
            LET r == obs[c].relu[1]
            IN /\ ~r.raised
               /\ r.propagated =
                     Some([i \in Idx |->
                             (IF r.forward_output[i] > 0 THEN 1 ELSE 0)
                                 * Max(r.incoming[i], 0)])
               /\ \A i \in Idx :
                     (r.forward_output[i] <= 0 \/ r.incoming[i] < 0)
                         => r.propagated[1][i] = 0
               /\ (r.pos = 1 /\ frame[c].pc \in {"backward", "read"})
                     => gradients = r.propagated

\* C2 witness: a ReLU's backward observer has fired on a gradient that is
\* positive where the unit's output was 0 and negative where it was positive.
C2_Witness ==
    \E c \in Calls :
        /\ obs[c].relu # None
        /\ \E i, j \in Idx :
              /\ obs[c].relu[1].forward_output[i] <= 0
              /\ obs[c].relu[1].incoming[i] > 0
              /\ obs[c].relu[1].forward_output[j] > 0
              /\ obs[c].relu[1].incoming[j] < 0

\* C3: generate fails with a range error for every target_class outside
\* [0, num_classes), negative ones included: such a call never sets an entry
\* of a one-hot vector, never runs the backward pass and never returns.
C3_OutOfRangeTargetFails ==
    \A c \in Calls :
        (frame[c].pc # "idle" /\ frame[c].target_class \notin Classes) =>
            /\ frame[c].pc \notin {"backward", "read"}
            /\ frame[c].one_hot_output \in {None, Some(ZeroVector)}
            /\ ~obs[c].backward_ran
            /\ Done(c) => /\ frame[c].raised = "IndexError(one_hot_output)"
                          /\ frame[c].result = None

\* C4: generate with target_class equal to the number of classes fails with an
\* out-of-range error and returns no bundle: it never reaches the backward
\* pass, and it ends with IndexError and no result.
C4_TargetEqualNumClassesFails ==
    \A c \in Calls :
        (frame[c].pc # "idle" /\ frame[c].target_class = NumClasses) =>
            /\ frame[c].pc \notin {"backward", "read"}
            /\ frame[c].result = None
            /\ Done(c) => frame[c].raised = "IndexError(one_hot_output)"

\* C4 witness: a call with target_class = num_classes has ended.
C4_Witness ==
    \E c \in Calls : Done(c) /\ frame[c].target_class = NumClasses

\* C5: when generate fails on an out-of-range target_class nothing was
\* computed: the forward pass has not run, no forward observer has fired, and
\* the Recorder and self.gradients are as they were before the call.
C5_NoPartialComputationOnRangeError ==
    \A c \in Calls :
        (Done(c) /\ frame[c].raised = "IndexError(one_hot_output)") =>
            /\ ~obs[c].forward_ran
            /\ obs[c].forward_fired = 0
            /\ forward_relu_outputs = obs[c].rec_before
            /\ gradients = obs[c].gradients_before

\* C6: a generate call in which the first-layer backward observer did not fire
\* fails with an error and returns no gradient, on the first call and on any
\* later call.
C6_NoCaptureFails ==
    \A c \in Calls :
        (Done(c) /\ ~obs[c].fired) =>
            /\ frame[c].raised # ""
            /\ frame[c].result = None

\* C7: when a ReLU's backward observer fires while the Recorder is empty, it
\* aborts with an error: it returns no gradient and leaves the Recorder as it
\* was.
C7_EmptyRecorderAborts ==
    (direct # None /\ direct[1].rec_before = << >>) =>
        /\ direct[1].raised
        /\ direct[1].ret = None
        /\ forward_relu_outputs = direct[1].rec_before

\* C7 witness: the observer has fired on an empty Recorder.
C7_Witness == direct # None /\ direct[1].rec_before = << >>

\* C8: the second generate call on a freshly constructed Controller, made with
\* the inputs of the first, ends as the first did: the same exception or the
\* same Output Bundle.
C8_SecondCallSameResult ==
    \A c \in Calls :
        (Done(c) /\ first.calls = 2 /\ first.call # None) =>
            /\ frame[c].raised = first.call[1].raised
            /\ frame[c].result = first.call[1].result

\* C8 witness: the second call repeated the first one's inputs and returned a
\* bundle, with a ReLU in the network.
C8_Witness ==
    \E c \in Calls :
        /\ Returned(c)
        /\ first.calls = 2
        /\ first.call # None
        /\ NumReLUs(layers) >= 1

\* C9: every successful generate call returns a mapping with exactly the four
\* keys, all derived from the one raw gradient that the first-layer observer
\* captured during that call.
C9_FourKeysFromThisCallsGradient ==
    \A c \in Calls :
        Returned(c) =>
            /\ DOMAIN frame[c].result[1] = BundleKeys
            /\ obs[c].fired
            /\ gradients # None
            /\ frame[c].result[1] = OutputBundle(gradients[1])

\* C10: each of the four arrays of a returned bundle has all its values in
\* [0,1]; it holds a 0 and a 1 unless the array that was normalized is constant
\* (min = max), and then it is all zeros.
NormalizedOf(a, out) ==
    /\ \A i \in Idx : InUnitInterval(out[i])
    /\ IF \A i, j \in Idx : a[i] = a[j]
       THEN \A i \in Idx : IsZero(out[i])
       ELSE (\E i \in Idx : IsZero(out[i])) /\ (\E i \in Idx : IsOne(out[i]))

C10_NormalizedRange ==
    \A c \in Calls :
        Returned(c) =>
            LET g == gradients[1]
                b == frame[c].result[1]
            IN /\ NormalizedOf(g, b.color_guided_grads)
               /\ NormalizedOf([i \in Idx |-> Abs(g[i])], b.grayscale_guided_grads)
               /\ NormalizedOf([i \in Idx |-> Max(g[i], 0)], b.positive_saliency_maps)
               /\ NormalizedOf([i \in Idx |-> Max(0 - g[i], 0)], b.negative_saliency_maps)

\* C10 witness: a returned bundle with a non-constant color map (a 0 and a 1)
\* and a constant, all-zero map.
C10_Witness ==
    \E c \in Calls :
        /\ Returned(c)
        /\ \E i, j \in Idx : gradients[1][i] # gradients[1][j]
        /\ \E i \in Idx : IsOne(frame[c].result[1].color_guided_grads[i])
        /\ \E k \in BundleKeys : \A i \in Idx : IsZero(frame[c].result[1][k][i])
\* C11: GradientVisualization.generate calls generate on the GuidedBackprop
\* Controller with arguments that generate accepts, the call completes, and
\* the four guided-backprop keys are in the merged results.
C11_AggregatorMergesGuidedKeys ==
    aggregator.pc = "done" =>
        /\ aggregator.raised = ""
        /\ BundleKeys \subseteq DOMAIN aggregator.results
\* C12: when a ReLU's backward observer fires in a generate call, it removes a
\* record from the Recorder without raising, and that record is the one that
\* the forward observer of the same unit appended earlier in the same call (so
\* that forward observer has fired before), also when the features hold
\* several ReLU units.
C12_LifoPairing ==
    \A c \in Calls :
        obs[c].relu # None =>
            LET r == obs[c].relu[1]
            IN /\ ~r.raised
               /\ r.popped = Some([call |-> c, pos |-> r.pos])

\* C12 witness: in a network of two ReLU units the backward observer of the
\* first unit has fired, after the one of the second unit.
C12_Witness ==
    \E c \in Calls :
        /\ NumReLUs(layers) >= 2
        /\ obs[c].relu # None
        /\ obs[c].relu[1].pos = 1
        /\ obs[c].relu[1].popped # None
\* C13: after every generate call, whether it returned a bundle or failed with
\* an error, the Controller is Ready and its Recorder is empty.
C13_ReadyAndEmptyAfterEveryCall ==
    \A c \in Calls :
        Done(c) => (ctrl = "Ready" /\ forward_relu_outputs = << >>)
\* C14: once the Controller is constructed, and through every generate call,
\* the first feature layer carries exactly one hook_function, every ReLU of the
\* features carries exactly one forward and one backward observer, and no
\* other layer carries any of them: the observers are those the constructor
\* registered, and generate neither adds nor removes one.
Registered(observers, name) ==
    Cardinality({k \in 1..Len(observers) : observers[k] = name})
C14_ObserversAttachedOnce ==
    ctrl = "Ready" =>
        \A p \in 1..Len(layers) :
            /\ Registered(backward_hooks[p], "hook_function") = (IF p = 1 THEN 1 ELSE 0)
            /\ Registered(backward_hooks[p], "relu_backward_hook_function")
                  = (IF layers[p] = "ReLU" THEN 1 ELSE 0)
            /\ Registered(forward_hooks[p], "relu_forward_hook_function")
                  = (IF layers[p] = "ReLU" THEN 1 ELSE 0)
            /\ Len(forward_hooks[p]) = Registered(forward_hooks[p], "relu_forward_hook_function")
            /\ Len(backward_hooks[p]) =
                  Registered(backward_hooks[p], "hook_function")
                      + Registered(backward_hooks[p], "relu_backward_hook_function")

\* C14 witness: a second generate call has returned its bundle on a network of
\* two layers whose second layer is a ReLU.
C14_Witness ==
    \E c \in Calls :
        /\ Returned(c)
        /\ first.calls = 2
        /\ Len(layers) = 2
        /\ layers[2] = "ReLU"
\* C15: while the calls on one Controller are made one at a time, no backward
\* observer of a call removes a record that another call appended, and no call
\* returns a gradient that the backward pass of another call captured.
C15_SerializedCallsDoNotInterfere ==
    \A c \in Calls :
        /\ (obs[c].relu # None /\ obs[c].relu[1].popped # None)
               => obs[c].relu[1].popped[1].call = c
        /\ Returned(c) => captured_by = c
\* C16: in every generate call that returns a bundle, hook_function has set
\* self.gradients during that call's backward pass, after the backward observer
\* of every ReLU of the features has run in that pass, so the returned gradient
\* is the one this call captured.
C16_CaptureInSameCallAfterEveryReLU ==
    \A c \in Calls :
        Returned(c) =>
            /\ obs[c].fired
            /\ captured_by = c
            /\ obs[c].captured_after = Some(NumReLUs(layers))
            /\ frame[c].result = Some(OutputBundle(gradients[1]))
\* C17: a generate call that follows a failed call on the same Controller, with
\* an input that requires grad and an accepted target_class, returns the bundle
\* a freshly constructed Controller returns for those inputs, and its backward
\* observers removed the records of its own forward pass only: the records the
\* Recorder held when the call began are all still there.
C17_ValidCallAfterFailedCall ==
    \A c \in Calls :
        (/\ Done(c)
         /\ previous # None
         /\ previous # Some("")
         /\ frame[c].requires_grad
         /\ IndexAccepted(frame[c].target_class, NumClasses)) =>
            /\ frame[c].raised = ""
            /\ frame[c].result =
                   Some(FreshGenerate(layers, weights, frame[c].input_image[1],
                                      frame[c].target_class))
            /\ forward_relu_outputs = obs[c].rec_before
            /\ \A k \in 1..Len(pushed_by) : pushed_by[k] = EarlierCall

\* C17 witness: a call with valid inputs has returned its bundle after a call
\* that failed on an out-of-range target_class and left a record behind.
C17_Witness ==
    \E c \in Calls :
        /\ Returned(c)
        /\ previous = Some("IndexError(one_hot_output)")
        /\ frame[c].requires_grad
        /\ obs[c].rec_before # << >>
        /\ obs[c].relu # None
\* C18: no step of the constructor or of a generate call changes the network's
\* layers or weights, and the backward pass of every call starts with the
\* parameter gradients reset (zero, or absent when none was ever accumulated),
\* whatever earlier calls accumulated.
C18_ParametersUnchanged ==
    [][/\ weights' = weights
       /\ layers' = layers
       /\ \A c \in Calls :
             (frame[c].pc = "target" /\ frame'[c].pc = "backward")
                 => param_grad' \in {"None", "zero"}]_vars

\* C18 witness: a second generate call has returned on a network with a
\* convolution, whose weight gradient the backward passes accumulated.
C18_Witness ==
    \E c \in Calls :
        /\ Returned(c)
        /\ first.calls = 2
        /\ \E p \in 1..Len(layers) : layers[p] = "Conv"
        /\ param_grad = "accumulated"
====
